---- MODULE Spec2Model ----
(***************************************************************************)
(* Track-routing core of the SFU (package sfu, track.go).                  *)
(*                                                                         *)
(* Spec           one client owning one SimulcastTrack (bundle):           *)
(*                AddRemoteTrack, the slot-clearing watchers, the          *)
(*                constructor's goroutine, context cancellation.           *)
(* SpecTree       Spec together with the contexts of a single-encoding     *)
(*                Track of the same client.                                *)
(* SpecTrack      a Track (or one encoding of a bundle) with its read      *)
(*                loop: the per-packet fan-out of newTrack.onRead and      *)
(*                AddRemoteTrack.onRead, subscribe, OnRead, the packet     *)
(*                pool, and the Track's contexts.                          *)
(* FairSpecTrack  SpecTrack with newTrack's goroutine scheduled fairly.    *)
(* SpecRegistry   the trackList registry: Add, Get, remove, Reset.         *)
(* SpecActive     the activity stamps of a bundle and isTrackActive.       *)
(* SpecCancel     Spec without completion callbacks; FairSpecCancel        *)
(*                schedules the slot-clearing watchers fairly.             *)
(* SpecBase       the base RTP timestamps written by the three read        *)
(*                loops of a bundle (AddRemoteTrack.onRead).               *)
(* SpecLock       every user of SimulcastTrack.mu, one step per            *)
(*                Lock/RLock and per release; FairSpecLock schedules       *)
(*                the goroutines fairly.                                   *)
(***************************************************************************)
EXTENDS Naturals, Sequences, FiniteSets

\* ---------------------------------------------------------------- bounds
MaxAdds == 3
MaxCallbacks == 1
MaxPackets == 2
MaxSubs == 2
MaxReadCallbacks == 2
MaxTicks == 6

\* ------------------------------------------------------------- constants
QualityHigh == "QualityHigh"
QualityMid == "QualityMid"
QualityLow == "QualityLow"
Qualities == {QualityHigh, QualityMid, QualityLow}

\* RIDs a publisher may label an encoding with (the empty string included).
RIDs == {"high", "mid", "low", ""}

\* The goroutines that call AddRemoteTrack (the client's OnTrack handlers, one
\* goroutine per arriving encoding). They are interchangeable: a call is taken
\* by the first one that is not inside AddRemoteTrack.
Callers == {1, 2}

\* The nil *remoteTrack.
Nil == 0

\* webrtc.MimeTypeVP9 and the codecs, kinds and payload types a published track
\* may come with; 63 is the payload type subscribe takes for RED.
MimeTypeVP9 == "video/VP9"
MimeTypes == {MimeTypeVP9, "video/VP8", "audio/opus"}
Kinds == {"video", "audio"}
PayloadTypeRED == 63
PayloadTypes == {PayloadTypeRED, 111}

VARIABLES
    clientCancelled,          \* client.Context() is done
    bundleCancelled,          \* SimulcastTrack.context is done
    remoteTrackHigh,          \* SimulcastTrack.remoteTrackHigh (Nil or a remote track)
    remoteTrackMid,           \* SimulcastTrack.remoteTrackMid
    remoteTrackLow,           \* SimulcastTrack.remoteTrackLow
    rtQuality,                \* quality of the i-th remote track created by AddRemoteTrack
    rtDone,                   \* rtDone[i]: the i-th remote track's context is done
    addPc,                    \* per caller: its position inside AddRemoteTrack
    watcherPc,                \* position of the i-th slot-clearing watcher goroutine
    ctorWatcherPc,            \* position of newSimulcastTrack's goroutine
    onTrackCompleteCallbacks, \* per registered callback: how often it was invoked
    completeFired,            \* how often onTrackComplete() ran
    overlapped,               \* some AddRemoteTrack call started while another was running
    trackCancelled,           \* Track.context is done
    trackRtDone,              \* Track.remoteTrack.Context() is done
    srcKind,                  \* fan-out: "track" or "simulcast" encoding
    srcRID,                   \* fan-out: the encoding's RID
    nRead,                    \* fan-out: packets delivered by the read loop so far
    fanPc,                    \* fan-out: position of the read loop inside onRead
    fanIdx,                   \* fan-out: loop index
    snapshot,                 \* fan-out: length of the slice the running loop ranges over
    clientTracks,             \* base.clientTracks: per client-track what was pushed to it
    onReadCallbacks,          \* onReadCallbacks: per callback what it was invoked with
    trackMu,                  \* Track.mu is held by the fan-out
    outstanding,              \* packet pool: buffers acquired and not yet released
    mimeType,                 \* Track: base.codec.MimeType
    codecKind,                \* Track: base.kind
    payloadType,              \* Track: base.codec.PayloadType
    pliSent,                  \* Track: how often subscribe called remoteTrack.sendPLI()
    handed,                   \* fan-out: the buffers handed to recipients for the current packet
    tracks,                   \* trackList.tracks: id -> handle
    regPc,                    \* trackList: per goroutine the call it is in and the lock it holds
    regRet,                   \* trackList: per goroutine what its last call returned
    now,                      \* wall clock, in units of 100 ms since the Unix epoch
    lastReadTS,               \* lastReadHighTS, lastReadMidTS, lastReadLowTS (same unit)
    slotRelay,                \* per slot: IsRelay() of the remote track it holds
    baseTS,                   \* SimulcastTrack.baseTS
    remoteTrackBaseTS,        \* remoteTrackHighBaseTS, remoteTrackMidBaseTS, remoteTrackLowBaseTS
    readPc,                   \* per encoding: position of its read loop in the head of onRead
    firstTS,                  \* per encoding: the RTP timestamp of the first packet read on it
    nBaseRead,                \* packets the read loops of the bundle have handed to onRead
    mu,                       \* SimulcastTrack.mu: who holds it for writing, who for reading
    addRt,                    \* per caller: the remote track its AddRemoteTrack call created
    apiPc,                    \* per goroutine calling a method of the bundle: the call it is in
    apiCalls                  \* method calls made on the bundle so far

bundleVars == <<clientCancelled, bundleCancelled, remoteTrackHigh, remoteTrackMid,
                remoteTrackLow, rtQuality, rtDone, addPc, watcherPc, ctorWatcherPc,
                onTrackCompleteCallbacks, completeFired, overlapped>>
trackVars == <<trackCancelled, trackRtDone>>
fanVars == <<srcKind, srcRID, nRead, fanPc, fanIdx, snapshot, clientTracks,
             onReadCallbacks, trackMu, outstanding>>
codecVars == <<mimeType, codecKind, payloadType>>
subVars == <<codecVars, pliSent, handed>>
regVars == <<tracks, regPc, regRet>>
activeVars == <<now, lastReadTS, slotRelay>>
baseVars == <<baseTS, remoteTrackBaseTS, readPc, firstTS, nBaseRead>>
muVars == <<mu, addRt, apiPc, apiCalls>>
extVars == <<subVars, regVars, activeVars, baseVars, muVars>>
vars == <<bundleVars, trackVars, fanVars, extVars>>

\* RIDToQuality without its "mid" case.
RIDToQuality_NoMid(RID) ==
    CASE RID = "high" -> QualityHigh
      [] OTHER -> QualityLow

\* ------------------------------------------------------------ RIDToQuality
RIDToQuality(RID) ==
    CASE RID = "high" -> QualityHigh
      [] RID = "mid" -> QualityMid
      [] OTHER -> QualityLow

\* ------------------------------------------------- SimulcastTrack accessors
Slot(q) ==
    CASE q = QualityHigh -> remoteTrackHigh
      [] q = QualityMid -> remoteTrackMid
      [] q = QualityLow -> remoteTrackLow

\* TotalTracks with the low slot left out of the count.
TotalTracks_WithoutLow ==
    (IF remoteTrackHigh # Nil THEN 1 ELSE 0)
    + (IF remoteTrackMid # Nil THEN 1 ELSE 0)

TotalTracks ==
    (IF remoteTrackHigh # Nil THEN 1 ELSE 0)
    + (IF remoteTrackMid # Nil THEN 1 ELSE 0)
    + (IF remoteTrackLow # Nil THEN 1 ELSE 0)

IsTrackComplete == TotalTracks = 3

Created == DOMAIN rtQuality

\* The callers inside AddRemoteTrack.
InFlight == {c \in Callers : addPc[c] # "idle"}

\* newSimulcastTrack has returned the bundle to its caller.
Constructed == ctorWatcherPc # "none"

\* A cancel that ends the bundle's own context and leaves the contexts of the
\* remote tracks alone (remote tracks created from another context).
CancelBundle_OwnContextOnly ==
    /\ bundleCancelled' = TRUE
    /\ UNCHANGED rtDone
    /\ watcherPc' = [i \in DOMAIN watcherPc |->
                        IF watcherPc[i] = "cancel" THEN "done" ELSE watcherPc[i]]

\* ------------------------------------------------------------ contexts
\* context.CancelFunc of the bundle: the bundle's context and every context
\* derived from it (each remote track's) are done when it returns. A watcher
\* that has only its own t.cancel() left to do has nothing left to change once
\* the context is done: it counts as finished from here on.
CancelBundle ==
    /\ bundleCancelled' = TRUE
    /\ rtDone' = [i \in DOMAIN rtDone |-> TRUE]
    /\ watcherPc' = [i \in DOMAIN watcherPc |->
                        IF watcherPc[i] = "cancel" THEN "done" ELSE watcherPc[i]]

\* newRemoteTrack(t.Context(), ...): the remote track's context is a child of
\* the bundle's, so it is born done when the bundle's already is.
NewRemoteTrackDone == bundleCancelled

\* ------------------------------------------------- AddRemoteTrack (475-603)
\* The slot write of the switch at 545-593, made under t.mu.
SetSlot(q, v) ==
    /\ remoteTrackHigh' = IF q = QualityHigh THEN v ELSE remoteTrackHigh
    /\ remoteTrackMid' = IF q = QualityMid THEN v ELSE remoteTrackMid
    /\ remoteTrackLow' = IF q = QualityLow THEN v ELSE remoteTrackLow

\* Lines 478-593 of a call by caller c: the quality from the RID, the new
\* remote track, the slot write under the lock and the spawn of the watcher.
\* The first call is the one newSimulcastTrack makes (387); the bundle is handed
\* to other callers only when that call has returned.
AddInstall(c, rid) ==
    LET quality == RIDToQuality(rid)
        id == Len(rtQuality) + 1
    IN  /\ addPc[c] = "idle"
        /\ \A d \in Callers : d < c => addPc[d] # "idle"
        /\ Len(rtQuality) < MaxAdds
        /\ IF Created = {} THEN InFlight = {} ELSE Constructed
        /\ rtQuality' = Append(rtQuality, quality)
        /\ rtDone' = Append(rtDone, NewRemoteTrackDone)
        /\ overlapped' = (overlapped \/ InFlight # {})
        /\ IF quality \in Qualities
           THEN /\ SetSlot(quality, id)
                /\ watcherPc' = Append(watcherPc, "wait")
                /\ addPc' = [addPc EXCEPT ![c] = "checkHigh"]
           ELSE \* default: warn, return nil
                /\ UNCHANGED <<remoteTrackHigh, remoteTrackMid, remoteTrackLow>>
                /\ watcherPc' = Append(watcherPc, "none")
                /\ UNCHANGED addPc
        /\ UNCHANGED <<clientCancelled, bundleCancelled, ctorWatcherPc,
                       onTrackCompleteCallbacks, completeFired>>
        /\ UNCHANGED <<trackVars, fanVars, extVars>>

\* Lines 600-602, which end every call that got past the switch:
\* onRemoteTrackAddedCallbacks and the return. When the call is the
\* constructor's, newSimulcastTrack goes on to spawn its goroutine (389-402) and
\* returns the bundle.
AddReturn(c) ==
    /\ addPc' = [addPc EXCEPT ![c] = "idle"]
    /\ ctorWatcherPc' = "wait"

\* Line 596, read without the lock, left to right with short-circuit:
\* t.remoteTrackHigh != nil && t.remoteTrackMid != nil && t.remoteTrackLow != nil
CheckSlot(c, here, slot, next) ==
    /\ addPc[c] = here
    /\ IF slot # Nil
       THEN addPc' = [addPc EXCEPT ![c] = next] /\ UNCHANGED ctorWatcherPc
       ELSE AddReturn(c)
    /\ UNCHANGED <<clientCancelled, bundleCancelled, remoteTrackHigh, remoteTrackMid,
                   remoteTrackLow, rtQuality, rtDone, watcherPc,
                   onTrackCompleteCallbacks, completeFired, overlapped>>
    /\ UNCHANGED <<trackVars, fanVars, extVars>>

\* Line 596 with its first test written t.remoteTrackHigh == nil.
AddCheckHigh_Negated(c) ==
    CheckSlot(c, "checkHigh", IF remoteTrackHigh = Nil THEN 1 ELSE Nil, "checkMid")

AddCheckHigh(c) == CheckSlot(c, "checkHigh", remoteTrackHigh, "checkMid")
AddCheckMid(c) == CheckSlot(c, "checkMid", remoteTrackMid, "checkLow")
AddCheckLow(c) == CheckSlot(c, "checkLow", remoteTrackLow, "complete")

\* onTrackComplete() (438-445), called at 597: under t.mu every registered
\* callback is invoked.
onTrackComplete ==
    /\ onTrackCompleteCallbacks' =
           [f \in DOMAIN onTrackCompleteCallbacks |-> onTrackCompleteCallbacks[f] + 1]
    /\ completeFired' = completeFired + 1

\* Line 597 and the rest of the call.
AddOnTrackComplete(c) ==
    /\ addPc[c] = "complete"
    /\ onTrackComplete
    /\ AddReturn(c)
    /\ UNCHANGED <<clientCancelled, bundleCancelled, remoteTrackHigh, remoteTrackMid,
                   remoteTrackLow, rtQuality, rtDone, watcherPc, overlapped>>
    /\ UNCHANGED <<trackVars, fanVars, extVars>>

\* A watcher that leaves its slot as it is and only cancels.
WatcherClear_KeepsSlot(i) ==
    /\ i \in Created
    /\ watcherPc[i] = "wait"
    /\ rtDone[i]
    /\ watcherPc' = [watcherPc EXCEPT ![i] = IF bundleCancelled THEN "done" ELSE "cancel"]
    /\ UNCHANGED <<clientCancelled, bundleCancelled, remoteTrackHigh, remoteTrackMid,
                   remoteTrackLow, rtQuality, rtDone, addPc, ctorWatcherPc,
                   onTrackCompleteCallbacks, completeFired, overlapped>>
    /\ UNCHANGED <<trackVars, fanVars, extVars>>

\* ------------------------------------ the slot-clearing watchers (551-589)
\* <-ctx.Done(); t.mu.Lock(); t.remoteTrackX = nil; t.mu.Unlock()
WatcherClear(i) ==
    /\ i \in Created
    /\ watcherPc[i] = "wait"
    /\ rtDone[i]
    /\ SetSlot(rtQuality[i], Nil)
    /\ watcherPc' = [watcherPc EXCEPT ![i] = IF bundleCancelled THEN "done" ELSE "cancel"]
    /\ UNCHANGED <<clientCancelled, bundleCancelled, rtQuality, rtDone, addPc,
                   ctorWatcherPc, onTrackCompleteCallbacks, completeFired, overlapped>>
    /\ UNCHANGED <<trackVars, fanVars, extVars>>

\* t.cancel()
WatcherCancel(i) ==
    /\ i \in Created
    /\ watcherPc[i] = "cancel"
    /\ CancelBundle
    /\ UNCHANGED <<clientCancelled, remoteTrackHigh, remoteTrackMid, remoteTrackLow,
                   rtQuality, addPc, ctorWatcherPc, onTrackCompleteCallbacks,
                   completeFired, overlapped>>
    /\ UNCHANGED <<trackVars, fanVars, extVars>>

\* The constructor's goroutine without its select: it cancels as soon as it runs.
CtorWatcher_NoWait ==
    /\ ctorWatcherPc = "wait"
    /\ ~bundleCancelled
    /\ CancelBundle
    /\ UNCHANGED <<clientCancelled, remoteTrackHigh, remoteTrackMid, remoteTrackLow,
                   rtQuality, addPc, ctorWatcherPc, onTrackCompleteCallbacks,
                   completeFired, overlapped>>
    /\ UNCHANGED <<trackVars, fanVars, extVars>>

\* ----------------------------- newSimulcastTrack's goroutine (391-402)
\* select on t.context.Done() and on the first remote track's context; then
\* the deferred rtCancel() and t.cancel(). When it wakes on t.context.Done()
\* its t.cancel() changes nothing, so only the other wake-up is a step here.
CtorWatcher ==
    /\ ctorWatcherPc = "wait"
    /\ rtDone[1]
    /\ ~bundleCancelled
    /\ CancelBundle
    /\ UNCHANGED <<clientCancelled, remoteTrackHigh, remoteTrackMid, remoteTrackLow,
                   rtQuality, addPc, ctorWatcherPc, onTrackCompleteCallbacks,
                   completeFired, overlapped>>
    /\ UNCHANGED <<trackVars, fanVars, extVars>>

\* OnTrackComplete(f) (431-436): append under t.mu.
OnTrackComplete ==
    /\ Constructed
    /\ Len(onTrackCompleteCallbacks) < MaxCallbacks
    /\ onTrackCompleteCallbacks' = Append(onTrackCompleteCallbacks, 0)
    /\ UNCHANGED <<clientCancelled, bundleCancelled, remoteTrackHigh, remoteTrackMid,
                   remoteTrackLow, rtQuality, rtDone, addPc, watcherPc, ctorWatcherPc,
                   completeFired, overlapped>>
    /\ UNCHANGED <<trackVars, fanVars, extVars>>

\* --------------------------------------------------- remote track, client
\* The transport of the i-th remote track signals EOF or an error: the read
\* loop ends and the remote track's context is cancelled.
RemoteEOF(i) ==
    /\ i \in Created
    /\ ~rtDone[i]
    /\ rtDone' = [rtDone EXCEPT ![i] = TRUE]
    /\ UNCHANGED <<clientCancelled, bundleCancelled, remoteTrackHigh, remoteTrackMid,
                   remoteTrackLow, rtQuality, addPc, watcherPc, ctorWatcherPc,
                   onTrackCompleteCallbacks, completeFired, overlapped>>
    /\ UNCHANGED <<trackVars, fanVars, extVars>>

\* What cancelling the client's context does to the Track: t.context (137) is
\* derived from client.Context(), and so is the remote track's (133).
CancelTrackTree ==
    /\ trackCancelled' = TRUE
    /\ trackRtDone' = TRUE

\* A bundle whose context is derived from context.Background().
CancelBundleTree_Detached == UNCHANGED <<bundleCancelled, rtDone, watcherPc>>

\* What cancelling the client's context does to the bundle: t.context (385) is
\* derived from client.Context().
CancelBundleTree == CancelBundle

\* The owning client's context is cancelled.
ClientCancel ==
    /\ ~clientCancelled
    /\ clientCancelled' = TRUE
    /\ CancelBundleTree
    /\ CancelTrackTree
    /\ UNCHANGED <<remoteTrackHigh, remoteTrackMid, remoteTrackLow, rtQuality, addPc,
                   ctorWatcherPc, onTrackCompleteCallbacks, completeFired, overlapped>>
    /\ UNCHANGED <<fanVars, extVars>>

\* ------------------------------------------------ Track, newTrack (133-152)
\* The transport of the Track's remote track signals EOF or an error.
TrackRemoteEOF ==
    /\ ~trackRtDone
    /\ trackRtDone' = TRUE
    /\ UNCHANGED trackCancelled
    /\ UNCHANGED <<bundleVars, fanVars, extVars>>

\* newTrack's goroutine with the rtContext.Done() case left out of the select.
TrackWatcher_OnlyOwnContext ==
    /\ trackCancelled
    /\ trackCancelled' = TRUE
    /\ UNCHANGED trackRtDone
    /\ UNCHANGED <<bundleVars, fanVars, extVars>>

\* newTrack's goroutine: select on t.context.Done() and on rtContext.Done();
\* then the deferred rtCancel() (of the derived rtContext only) and cancel().
\* When it wakes on t.context.Done() its cancel() changes nothing, so only the
\* other wake-up is a step here.
TrackWatcher ==
    /\ trackRtDone
    /\ ~trackCancelled
    /\ trackCancelled' = TRUE
    /\ UNCHANGED trackRtDone
    /\ UNCHANGED <<bundleVars, fanVars, extVars>>

\* AddRemoteTrack.onRead tagging with the constant newTrack.onRead uses.
ArrivalQuality_AlwaysHigh == QualityHigh

\* ------------------------------------------------ the fan-out of a packet
\* The quality the encoding's packets are tagged with: QualityHigh in
\* newTrack.onRead (108, 122), RIDToQuality(track.RID()) in
\* AddRemoteTrack.onRead (478, 521, 535).
ArrivalQuality ==
    IF srcKind = "track" THEN QualityHigh ELSE RIDToQuality(srcRID)

\* The read loop of the remote track hands the next packet of the transport to
\* onRead, which starts with tracks := clientTracks.GetTracks() (98, 512). The
\* packet is named by its place in the source stream. The read loop of the
\* Track's remote track ends with its context.
ReadPacket ==
    /\ fanPc = "idle"
    /\ nRead < MaxPackets
    /\ srcKind = "track" => ~trackRtDone
    /\ nRead' = nRead + 1
    /\ snapshot' = Len(clientTracks)
    /\ fanIdx' = 1
    /\ fanPc' = "push"
    /\ handed' = <<>>
    /\ UNCHANGED <<srcKind, srcRID, clientTracks, onReadCallbacks, trackMu, outstanding>>
    /\ UNCHANGED <<codecVars, pliSent>>
    /\ UNCHANGED <<bundleVars, trackVars, regVars, activeVars, baseVars, muVars>>

\* The buffers of one packet's fan-out: the packet p the read loop passed to
\* onRead, the copyPacket of the k-th round of the loop over the client-tracks
\* (104, 517), the copyPacket made for t.onRead (118, 531), and the copyPacket
\* of the j-th round of Track.onRead's loop (302).
SourcePacket == <<"p", "onRead">>
PushCopy(k) == <<"copyPacket", "push", k>>
OnReadCopy == <<"copyPacket", "t.onRead">>
CallbackCopy(j) == <<"copyPacket", "callback", j>>

\* What the j-th read-callback is called with: callback(p, quality), where p is
\* the parameter of Track.onRead (304) or of SimulcastTrack.onRead (768), that
\* is the copyPacket of 118 or 531.
CallbackArgument(j) == OnReadCopy

\* track.push(copyPacket, quality) as the client-track sees it.
push(ct, packet, quality) ==
    [ct EXCEPT !.recv = Append(@, <<packet, quality>>)]

\* One round of the loop over the snapshot (100-113, 513-526): two pool
\* acquisitions (NewPacket, GetPacketAllocationFromPool), the push, the two
\* releases (ResetPacketPoolAllocation, Release).
PushOne ==
    /\ fanPc = "push"
    /\ fanIdx <= snapshot
    /\ clientTracks' = [clientTracks EXCEPT
                           ![fanIdx] = push(@, nRead, ArrivalQuality)]
    /\ outstanding' = (outstanding + 2) - 2
    /\ fanIdx' = fanIdx + 1
    /\ handed' = Append(handed, PushCopy(fanIdx))
    /\ UNCHANGED <<srcKind, srcRID, nRead, fanPc, snapshot, onReadCallbacks, trackMu>>
    /\ UNCHANGED <<codecVars, pliSent>>
    /\ UNCHANGED <<bundleVars, trackVars, regVars, activeVars, baseVars, muVars>>

\* The same round when push panics: nothing in onRead recovers or defers, so
\* the two acquisitions stay and the panic leaves onRead for the read loop.
PushPanic ==
    /\ fanPc = "push"
    /\ fanIdx <= snapshot
    /\ outstanding' = outstanding + 2
    /\ fanPc' = "crashed"
    /\ UNCHANGED <<srcKind, srcRID, nRead, fanIdx, snapshot, clientTracks,
                   onReadCallbacks, trackMu>>
    /\ UNCHANGED subVars
    /\ UNCHANGED <<bundleVars, trackVars, regVars, activeVars, baseVars, muVars>>

\* After the loop (116-122, 529-535): two acquisitions, then t.onRead. Track.onRead
\* (297-308) takes t.mu and ranges over onReadCallbacks;
\* SimulcastTrack.onRead (766-770) ranges over them without a lock.
CallbacksBegin ==
    /\ fanPc = "push"
    /\ fanIdx > snapshot
    /\ srcKind = "track" => ~trackMu
    /\ trackMu' = (srcKind = "track")
    /\ outstanding' = outstanding + 2
    /\ snapshot' = Len(onReadCallbacks)
    /\ fanIdx' = 1
    /\ fanPc' = "callbacks"
    /\ UNCHANGED <<srcKind, srcRID, nRead, clientTracks, onReadCallbacks>>
    /\ UNCHANGED subVars
    /\ UNCHANGED <<bundleVars, trackVars, regVars, activeVars, baseVars, muVars>>

\* What one round of Track.onRead's loop acquires from the pool (302) and
\* releases (306); SimulcastTrack.onRead acquires nothing.
CallbackCopies == IF srcKind = "track" THEN 1 ELSE 0

\* One round of the loop over the callbacks (301-307, 767-769).
CallbackOne ==
    /\ fanPc = "callbacks"
    /\ fanIdx <= snapshot
    /\ onReadCallbacks' = [onReadCallbacks EXCEPT
                              ![fanIdx] = Append(@, <<nRead, ArrivalQuality>>)]
    /\ outstanding' = (outstanding + CallbackCopies) - CallbackCopies
    /\ fanIdx' = fanIdx + 1
    /\ handed' = Append(handed, CallbackArgument(fanIdx))
    /\ UNCHANGED <<srcKind, srcRID, nRead, fanPc, snapshot, clientTracks, trackMu>>
    /\ UNCHANGED <<codecVars, pliSent>>
    /\ UNCHANGED <<bundleVars, trackVars, regVars, activeVars, baseVars, muVars>>

\* The same round when the callback panics: the deferred t.mu.Unlock() of
\* Track.onRead runs, no release does.
CallbackPanic ==
    /\ fanPc = "callbacks"
    /\ fanIdx <= snapshot
    /\ outstanding' = outstanding + CallbackCopies
    /\ trackMu' = FALSE
    /\ fanPc' = "crashed"
    /\ UNCHANGED <<srcKind, srcRID, nRead, fanIdx, snapshot, clientTracks,
                   onReadCallbacks>>
    /\ UNCHANGED subVars
    /\ UNCHANGED <<bundleVars, trackVars, regVars, activeVars, baseVars, muVars>>

\* t.onRead returns (the deferred unlock of Track.onRead), then the two
\* releases of 124-126, 537-539; onRead returns to the read loop.
CallbacksEnd ==
    /\ fanPc = "callbacks"
    /\ fanIdx > snapshot
    /\ trackMu' = FALSE
    /\ outstanding' = outstanding - 2
    /\ fanPc' = "idle"
    /\ UNCHANGED <<srcKind, srcRID, nRead, fanIdx, snapshot, clientTracks,
                   onReadCallbacks>>
    /\ UNCHANGED subVars
    /\ UNCHANGED <<bundleVars, trackVars, regVars, activeVars, baseVars, muVars>>

\* Track.subscribe with the RED test before the VP9 test.
NewClientTrackKind_RedFirst ==
    IF srcKind = "simulcast" THEN "simulcast"
    ELSE IF codecKind = "audio" /\ payloadType = PayloadTypeRED THEN "red"
    ELSE IF mimeType = MimeTypeVP9 THEN "scaleable"
    ELSE "plain"

\* The client-track Track.subscribe constructs (251-261); SimulcastTrack.subscribe
\* always constructs a simulcast client-track (624).
NewClientTrackKind ==
    IF srcKind = "simulcast" THEN "simulcast"
    ELSE IF mimeType = MimeTypeVP9 THEN "scaleable"
    ELSE IF codecKind = "audio" /\ payloadType = PayloadTypeRED THEN "red"
    ELSE "plain"

\* Whether subscribe calls t.remoteTrack.sendPLI() (262-264); SimulcastTrack.subscribe
\* has no such call.
SubscribeSendsPLI == srcKind = "track" /\ codecKind = "video"

\* subscribe (248-269, 621-629): the new client-track is constructed and added to
\* base.clientTracks. joinedAt keeps how many packets the read loop had
\* delivered by then.
subscribe ==
    /\ Len(clientTracks) < MaxSubs
    /\ clientTracks' = Append(clientTracks, [recv |-> <<>>, joinedAt |-> nRead,
                                             kind |-> NewClientTrackKind])
    /\ pliSent' = IF SubscribeSendsPLI THEN pliSent + 1 ELSE pliSent
    /\ UNCHANGED <<codecVars, handed>>
    /\ UNCHANGED <<srcKind, srcRID, nRead, fanPc, fanIdx, snapshot, onReadCallbacks,
                   trackMu, outstanding>>
    /\ UNCHANGED <<bundleVars, trackVars, regVars, activeVars, baseVars, muVars>>

\* OnRead(callback) (290-295, 759-764): append under t.mu. The Track's mutex is
\* the one its fan-out holds while it ranges over the callbacks.
OnRead ==
    /\ Len(onReadCallbacks) < MaxReadCallbacks
    /\ ~trackMu
    /\ onReadCallbacks' = Append(onReadCallbacks, <<>>)
    /\ UNCHANGED <<srcKind, srcRID, nRead, fanPc, fanIdx, snapshot, clientTracks,
                   trackMu, outstanding>>
    /\ UNCHANGED subVars
    /\ UNCHANGED <<bundleVars, trackVars, regVars, activeVars, baseVars, muVars>>

\* ------------------------------------------------------ trackList (870-949)
\* Ids and handles of the tracks a client registers; two tracks may carry the
\* same id. Absent stands for "no entry under this key" in the map.
IDs == {"abc", "def"}
Handles == {"t1", "t2", "t3"}
Absent == "absent"

\* track.ID(): t1 and t2 carry the id "abc", t3 the id "def".
ID(track) == IF track = "t3" THEN "def" ELSE "abc"
Goroutines == {1, 2}

ErrTrackExists == "ErrTrackExists"
ErrTrackIsNotExists == "ErrTrackIsNotExists"

\* Which side of t.mu each method takes: Lock() in Add (889) and remove (916),
\* RLock() in Get (904), Reset (926), GetTracks (933) and Length (945).
WriteOps == {"Add", "remove"}
ReadOps == {"Get", "Reset", "GetTracks", "Length"}

RegIdle == [op |-> "idle", id |-> "", ids |-> {}, h |-> Absent]

\* sync.RWMutex as the goroutines inside a method hold it.
WriteLocked == \E g \in Goroutines : regPc[g].op \in WriteOps
ReadLocked == \E g \in Goroutines : regPc[g].op \in ReadOps

\* The first statement of every method: t.mu.Lock() or t.mu.RLock(). Lock()
\* waits until nobody holds the mutex, RLock() until no writer does.
RegCall(g, op, id, ids, h) ==
    /\ regPc[g].op = "idle"
    /\ IF op \in WriteOps THEN ~WriteLocked /\ ~ReadLocked ELSE ~WriteLocked
    /\ regPc' = [regPc EXCEPT ![g] = [op |-> op, id |-> id, ids |-> ids, h |-> h]]
    /\ UNCHANGED <<tracks, regRet>>
    /\ UNCHANGED <<bundleVars, trackVars, fanVars, subVars, activeVars, baseVars, muVars>>

\* The return of a method, with its deferred Unlock() or RUnlock().
RegReturn(g, val) ==
    /\ regRet' = [g |-> g, op |-> regPc[g].op, id |-> regPc[g].id,
                  ids |-> regPc[g].ids, h |-> regPc[g].h, val |-> val]
    /\ regPc' = [regPc EXCEPT ![g] = RegIdle]
    /\ UNCHANGED <<bundleVars, trackVars, fanVars, subVars, activeVars, baseVars, muVars>>

\* Add without the test for an entry already present.
Add_Overwrites(g) ==
    /\ regPc[g].op = "Add"
    /\ tracks' = [tracks EXCEPT ![ID(regPc[g].h)] = regPc[g].h]
    /\ RegReturn(g, "nil")

\* Add (888-901) after the lock.
Add(g) ==
    /\ regPc[g].op = "Add"
    /\ LET id == ID(regPc[g].h)
       IN  IF tracks[id] # Absent
           THEN /\ UNCHANGED tracks
                /\ RegReturn(g, ErrTrackExists)
           ELSE /\ tracks' = [tracks EXCEPT ![id] = regPc[g].h]
                /\ RegReturn(g, "nil")

\* Get (903-912) after the lock.
Get(g) ==
    /\ regPc[g].op = "Get"
    /\ UNCHANGED tracks
    /\ IF tracks[regPc[g].id] # Absent
       THEN RegReturn(g, tracks[regPc[g].id])
       ELSE RegReturn(g, ErrTrackIsNotExists)

\* remove that stops after the first id of its list (a return inside the loop).
remove_FirstOnly(g) ==
    /\ regPc[g].op = "remove"
    /\ tracks' = [i \in IDs |->
                      IF regPc[g].ids # {} /\ i = CHOOSE j \in regPc[g].ids : TRUE
                      THEN Absent ELSE tracks[i]]
    /\ RegReturn(g, "")

\* remove (915-923) after the lock.
remove(g) ==
    /\ regPc[g].op = "remove"
    /\ tracks' = [i \in IDs |-> IF i \in regPc[g].ids THEN Absent ELSE tracks[i]]
    /\ RegReturn(g, "")

\* Reset (925-930) after its RLock(): t.tracks = make(map[string]ITrack).
Reset(g) ==
    /\ regPc[g].op = "Reset"
    /\ tracks' = [i \in IDs |-> Absent]
    /\ RegReturn(g, "")

\* GetTracks (932-942) after the lock: the handles, as a set.
GetTracks(g) ==
    /\ regPc[g].op = "GetTracks"
    /\ UNCHANGED tracks
    /\ RegReturn(g, {tracks[i] : i \in {j \in IDs : tracks[j] # Absent}})

\* Length (944-949) after the lock.
Length(g) ==
    /\ regPc[g].op = "Length"
    /\ UNCHANGED tracks
    /\ RegReturn(g, Cardinality({i \in IDs : tracks[i] # Absent}))

\* newTrackList (881-886).
RegInit ==
    /\ tracks = [i \in IDs |-> Absent]
    /\ regPc = [g \in Goroutines |-> RegIdle]
    /\ regRet = [g |-> 0, op |-> "idle", id |-> "", ids |-> {}, h |-> Absent,
                 val |-> ""]

\* ------------------------------------- quality liveness, relay (678-730, 855-868)
\* Time is counted in units of 100 ms since the Unix epoch; `threshold` is
\* 500 ms (684). The clock of a running SFU is past the first 500 ms of 1970.
Threshold == 5
StartTime == Threshold + 1

\* isTrackActive with delta >= threshold.
isTrackActive_Strict(quality) ==
    IF Slot(quality) = Nil THEN FALSE
    ELSE IF now - lastReadTS[quality] >= Threshold THEN FALSE
    ELSE TRUE

\* isTrackActive(quality) (679-730): false for a nil slot, false when
\* time.Since(lastReadXTS) > threshold, true otherwise.
isTrackActive(quality) ==
    IF Slot(quality) = Nil THEN FALSE
    ELSE IF now - lastReadTS[quality] > Threshold THEN FALSE
    ELSE TRUE

\* IsRelay() (855-868): the answer of the first non-nil slot, high before mid
\* before low.
IsRelay ==
    IF remoteTrackHigh # Nil THEN slotRelay[QualityHigh]
    ELSE IF remoteTrackMid # Nil THEN slotRelay[QualityMid]
    ELSE IF remoteTrackLow # Nil THEN slotRelay[QualityLow]
    ELSE FALSE

\* The head of AddRemoteTrack.onRead for a packet of the i-th remote track
\* (495-510): readTime := time.Now(); lastReadXTS.Store(readTime) for the
\* quality of the closure. The read loop runs while the remote track is live.
StampRead(i) ==
    /\ i \in Created
    /\ ~rtDone[i]
    /\ lastReadTS' = [lastReadTS EXCEPT ![rtQuality[i]] = now]
    /\ UNCHANGED <<now, slotRelay>>
    /\ UNCHANGED <<bundleVars, trackVars, fanVars, subVars, regVars, baseVars, muVars>>

\* 100 ms pass.
Tick ==
    /\ now < StartTime + MaxTicks
    /\ now' = now + 1
    /\ UNCHANGED <<lastReadTS, slotRelay>>
    /\ UNCHANGED <<bundleVars, trackVars, fanVars, subVars, regVars, baseVars, muVars>>

\* The atomics of newSimulcastTrack (371-373) start at zero.
ActiveInit ==
    /\ now = StartTime
    /\ lastReadTS = [q \in Qualities |-> 0]
    /\ slotRelay = [q \in Qualities |-> FALSE]

\* --------------------------- base timestamps, AddRemoteTrack.onRead (480-493)
\* RTP timestamps are uint32 (rtp.Header.Timestamp, baseTS at 329), written
\* here as their two 16-bit halves <<high, low>>: the least value, the next one
\* and the greatest (4294967295).
MaxHalf == 65535
ZeroTS == <<0, 0>>
Timestamps == {ZeroTS, <<0, 1>>, <<MaxHalf, MaxHalf>>}

\* Packets the transports of the bundle deliver, all encodings together.
MaxBaseReads == 3

NoRead == [pc |-> "idle", ts |-> ZeroTS]

\* Lines 487-493 for the closure of quality q and a packet with timestamp ts.
SetQualityBaseTS(q, ts) ==
    remoteTrackBaseTS' =
        IF remoteTrackBaseTS[q] = ZeroTS
        THEN [remoteTrackBaseTS EXCEPT ![q] = ts]
        ELSE remoteTrackBaseTS

\* The read loop of the encoding of quality q hands a packet with timestamp ts
\* to onRead, which evaluates t.baseTS == 0 (483). No lock is held and baseTS is
\* not an atomic, so the read loops of the other encodings run in between the
\* test and the assignment. When the test fails onRead goes on with 487-493.
ReadBaseTest(q, ts) ==
    /\ Slot(q) # Nil
    /\ ~rtDone[Slot(q)]
    /\ readPc[q].pc = "idle"
    /\ nBaseRead < MaxBaseReads
    /\ nBaseRead' = nBaseRead + 1
    /\ firstTS' = IF firstTS[q] = <<>> THEN [firstTS EXCEPT ![q] = <<ts>>] ELSE firstTS
    /\ IF baseTS = ZeroTS
       THEN /\ readPc' = [readPc EXCEPT ![q] = [pc |-> "setBase", ts |-> ts]]
            /\ UNCHANGED remoteTrackBaseTS
       ELSE /\ SetQualityBaseTS(q, ts)
            /\ UNCHANGED readPc
    /\ UNCHANGED baseTS
    /\ UNCHANGED <<bundleVars, trackVars, fanVars, subVars, regVars, activeVars, muVars>>

\* t.baseTS = p.Timestamp (484), then 487-493.
ReadBaseSet(q) ==
    /\ readPc[q].pc = "setBase"
    /\ baseTS' = readPc[q].ts
    /\ SetQualityBaseTS(q, readPc[q].ts)
    /\ readPc' = [readPc EXCEPT ![q] = NoRead]
    /\ UNCHANGED <<firstTS, nBaseRead>>
    /\ UNCHANGED <<bundleVars, trackVars, fanVars, subVars, regVars, activeVars, muVars>>

\* The uint32 fields of a new SimulcastTrack (358-383) are zero.
BaseInit ==
    /\ baseTS = ZeroTS
    /\ remoteTrackBaseTS = [q \in Qualities |-> ZeroTS]
    /\ readPc = [q \in Qualities |-> NoRead]
    /\ firstTS = [q \in Qualities |-> <<>>]
    /\ nBaseRead = 0

\* ------------------------------------------------ SimulcastTrack.mu (327)
\* The goroutines that take the bundle's mutex: the callers of AddRemoteTrack,
\* the slot-clearing watchers, and the goroutines calling the bundle's methods.
ApiGoroutines == {1, 2}
NoOne == <<>>
ApiIdle == [side |-> "none", st |-> "idle"]

\* Method calls made on the bundle by these goroutines, all together.
MaxApiCalls == 2

\* sync.RWMutex of a new SimulcastTrack (359): unlocked.
MuInit ==
    /\ mu = [writer |-> NoOne, readers |-> {}]
    /\ addRt = [c \in Callers |-> Nil]
    /\ apiPc = [g \in ApiGoroutines |-> ApiIdle]
    /\ apiCalls = 0

AddHolder(c) == <<"add", c>>
WatcherHolder(i) == <<"watcher", i>>
ApiHolder(g) == <<"api", g>>

\* The methods called on a bundle from other goroutines, by the side of t.mu
\* they take: Lock() in OnTrackComplete (432) and TotalTracks (659), RLock() in
\* isTrackActive (680) and sendPLI (733). OnRead (759-764) locks, appends and
\* unlocks as OnTrackComplete does.
LockOps == {"OnTrackComplete", "TotalTracks"}
RLockOps == {"isTrackActive", "sendPLI"}

\* Some goroutine has reached a t.mu.Lock() and has not got the mutex yet.
WriterWaiting ==
    \/ \E c \in Callers : addPc[c] \in {"lockSlot", "lockComplete", "lockAdded"}
    \/ \E i \in Created : watcherPc[i] = "wait" /\ rtDone[i]
    \/ \E g \in ApiGoroutines : apiPc[g].st = "lock" /\ apiPc[g].side = "Lock"

\* sync.RWMutex: Lock() returns when nobody holds the mutex; RLock() returns
\* when nobody holds it for writing and no Lock() is waiting for it (a blocked
\* Lock() keeps new readers out). No method of the bundle takes t.mu while it
\* holds it.
MuFree == mu.writer = NoOne /\ mu.readers = {}
Lock(h) == MuFree /\ mu' = [mu EXCEPT !.writer = h]
Unlock(h) == mu.writer = h /\ mu' = [mu EXCEPT !.writer = NoOne]
RLock(h) ==
    /\ mu.writer = NoOne
    /\ ~WriterWaiting
    /\ mu' = [mu EXCEPT !.readers = @ \cup {h}]
RUnlock(h) == h \in mu.readers /\ mu' = [mu EXCEPT !.readers = @ \ {h}]

\* AddRemoteTrack, 478-547, by caller c: the quality, the new remote track, and
\* the call reaches t.mu.Lock() of its case of the switch. The publisher sends
\* one encoding per quality, each added by one call.
AddBegin(c, rid) ==
    LET quality == RIDToQuality(rid)
        id == Len(rtQuality) + 1
    IN  /\ addPc[c] = "idle"
        /\ \A d \in Callers : d < c => addPc[d] # "idle"
        /\ Len(rtQuality) < Cardinality(Qualities)
        /\ Constructed
        /\ rtQuality' = Append(rtQuality, quality)
        /\ rtDone' = Append(rtDone, NewRemoteTrackDone)
        /\ watcherPc' = Append(watcherPc, "none")
        /\ UNCHANGED overlapped
        /\ addRt' = [addRt EXCEPT ![c] = id]
        /\ addPc' = [addPc EXCEPT ![c] = "lockSlot"]
        /\ UNCHANGED <<clientCancelled, bundleCancelled, remoteTrackHigh, remoteTrackMid,
                       remoteTrackLow, ctorWatcherPc, onTrackCompleteCallbacks,
                       completeFired>>
        /\ UNCHANGED <<mu, apiPc, apiCalls>>
        /\ UNCHANGED <<trackVars, fanVars, subVars, regVars, activeVars, baseVars>>

\* t.mu.Lock() at 547, 562 or 577.
AddLockSlot(c) ==
    /\ addPc[c] = "lockSlot"
    /\ Lock(AddHolder(c))
    /\ addPc' = [addPc EXCEPT ![c] = "slot"]
    /\ UNCHANGED <<clientCancelled, bundleCancelled, remoteTrackHigh, remoteTrackMid,
                   remoteTrackLow, rtQuality, rtDone, watcherPc, ctorWatcherPc,
                   onTrackCompleteCallbacks, completeFired, overlapped>>
    /\ UNCHANGED <<addRt, apiPc, apiCalls>>
    /\ UNCHANGED <<trackVars, fanVars, subVars, regVars, activeVars, baseVars>>

\* The slot write, t.mu.Unlock() and the spawn of the watcher (548-559).
AddWriteSlot(c) ==
    /\ addPc[c] = "slot"
    /\ SetSlot(rtQuality[addRt[c]], addRt[c])
    /\ Unlock(AddHolder(c))
    /\ watcherPc' = [watcherPc EXCEPT ![addRt[c]] = "wait"]
    /\ addPc' = [addPc EXCEPT ![c] = "checkHigh"]
    /\ UNCHANGED <<clientCancelled, bundleCancelled, rtQuality, rtDone, ctorWatcherPc,
                   onTrackCompleteCallbacks, completeFired, overlapped>>
    /\ UNCHANGED <<addRt, apiPc, apiCalls>>
    /\ UNCHANGED <<trackVars, fanVars, subVars, regVars, activeVars, baseVars>>

\* Line 596, one operand at a time, read without t.mu: on nil the call goes on
\* to onRemoteTrackAddedCallbacks (600), on three non-nil slots to
\* onTrackComplete (597).
TestSlot(c, here, slot, next) ==
    /\ addPc[c] = here
    /\ addPc' = [addPc EXCEPT ![c] = IF slot # Nil THEN next ELSE "lockAdded"]
    /\ UNCHANGED <<clientCancelled, bundleCancelled, remoteTrackHigh, remoteTrackMid,
                   remoteTrackLow, rtQuality, rtDone, watcherPc, ctorWatcherPc,
                   onTrackCompleteCallbacks, completeFired, overlapped>>
    /\ UNCHANGED muVars
    /\ UNCHANGED <<trackVars, fanVars, subVars, regVars, activeVars, baseVars>>

AddTestHigh(c) == TestSlot(c, "checkHigh", remoteTrackHigh, "checkMid")
AddTestMid(c) == TestSlot(c, "checkMid", remoteTrackMid, "checkLow")
AddTestLow(c) == TestSlot(c, "checkLow", remoteTrackLow, "lockComplete")

\* t.mu.Lock() of onTrackComplete (439).
AddLockComplete(c) ==
    /\ addPc[c] = "lockComplete"
    /\ Lock(AddHolder(c))
    /\ addPc' = [addPc EXCEPT ![c] = "complete"]
    /\ UNCHANGED <<clientCancelled, bundleCancelled, remoteTrackHigh, remoteTrackMid,
                   remoteTrackLow, rtQuality, rtDone, watcherPc, ctorWatcherPc,
                   onTrackCompleteCallbacks, completeFired, overlapped>>
    /\ UNCHANGED <<addRt, apiPc, apiCalls>>
    /\ UNCHANGED <<trackVars, fanVars, subVars, regVars, activeVars, baseVars>>

\* onTrackComplete without its deferred t.mu.Unlock().
AddRunComplete_KeepsLock(c) ==
    /\ addPc[c] = "complete"
    /\ onTrackComplete
    /\ addPc' = [addPc EXCEPT ![c] = "lockAdded"]
    /\ UNCHANGED <<clientCancelled, bundleCancelled, remoteTrackHigh, remoteTrackMid,
                   remoteTrackLow, rtQuality, rtDone, watcherPc, ctorWatcherPc,
                   overlapped>>
    /\ UNCHANGED muVars
    /\ UNCHANGED <<trackVars, fanVars, subVars, regVars, activeVars, baseVars>>

\* The loop of onTrackComplete and its deferred t.mu.Unlock() (440-445).
AddRunComplete(c) ==
    /\ addPc[c] = "complete"
    /\ onTrackComplete
    /\ Unlock(AddHolder(c))
    /\ addPc' = [addPc EXCEPT ![c] = "lockAdded"]
    /\ UNCHANGED <<clientCancelled, bundleCancelled, remoteTrackHigh, remoteTrackMid,
                   remoteTrackLow, rtQuality, rtDone, watcherPc, ctorWatcherPc,
                   overlapped>>
    /\ UNCHANGED <<addRt, apiPc, apiCalls>>
    /\ UNCHANGED <<trackVars, fanVars, subVars, regVars, activeVars, baseVars>>

\* t.mu.Lock() of onRemoteTrackAddedCallbacks (423).
AddLockAdded(c) ==
    /\ addPc[c] = "lockAdded"
    /\ Lock(AddHolder(c))
    /\ addPc' = [addPc EXCEPT ![c] = "added"]
    /\ UNCHANGED <<clientCancelled, bundleCancelled, remoteTrackHigh, remoteTrackMid,
                   remoteTrackLow, rtQuality, rtDone, watcherPc, ctorWatcherPc,
                   onTrackCompleteCallbacks, completeFired, overlapped>>
    /\ UNCHANGED <<addRt, apiPc, apiCalls>>
    /\ UNCHANGED <<trackVars, fanVars, subVars, regVars, activeVars, baseVars>>

\* The loop of onRemoteTrackAddedCallbacks, its deferred t.mu.Unlock()
\* (424-429) and the return of AddRemoteTrack (602).
AddRunAdded(c) ==
    /\ addPc[c] = "added"
    /\ Unlock(AddHolder(c))
    /\ addPc' = [addPc EXCEPT ![c] = "idle"]
    /\ addRt' = [addRt EXCEPT ![c] = Nil]
    /\ UNCHANGED <<clientCancelled, bundleCancelled, remoteTrackHigh, remoteTrackMid,
                   remoteTrackLow, rtQuality, rtDone, watcherPc, ctorWatcherPc,
                   onTrackCompleteCallbacks, completeFired, overlapped>>
    /\ UNCHANGED <<apiPc, apiCalls>>
    /\ UNCHANGED <<trackVars, fanVars, subVars, regVars, activeVars, baseVars>>

\* A watcher: <-ctx.Done() and t.mu.Lock() (554-555).
WatcherLock(i) ==
    /\ i \in Created
    /\ watcherPc[i] = "wait"
    /\ rtDone[i]
    /\ Lock(WatcherHolder(i))
    /\ watcherPc' = [watcherPc EXCEPT ![i] = "locked"]
    /\ UNCHANGED <<clientCancelled, bundleCancelled, remoteTrackHigh, remoteTrackMid,
                   remoteTrackLow, rtQuality, rtDone, addPc, ctorWatcherPc,
                   onTrackCompleteCallbacks, completeFired, overlapped>>
    /\ UNCHANGED <<addRt, apiPc, apiCalls>>
    /\ UNCHANGED <<trackVars, fanVars, subVars, regVars, activeVars, baseVars>>

\* t.remoteTrackX = nil and t.mu.Unlock() (556-557).
WatcherWrite(i) ==
    /\ i \in Created
    /\ watcherPc[i] = "locked"
    /\ SetSlot(rtQuality[i], Nil)
    /\ Unlock(WatcherHolder(i))
    /\ watcherPc' = [watcherPc EXCEPT ![i] = IF bundleCancelled THEN "done" ELSE "cancel"]
    /\ UNCHANGED <<clientCancelled, bundleCancelled, rtQuality, rtDone, addPc,
                   ctorWatcherPc, onTrackCompleteCallbacks, completeFired, overlapped>>
    /\ UNCHANGED <<addRt, apiPc, apiCalls>>
    /\ UNCHANGED <<trackVars, fanVars, subVars, regVars, activeVars, baseVars>>

\* Goroutine g calls a method of the bundle and reaches its first statement:
\* t.mu.Lock() or t.mu.RLock().
ApiCall(g, side) ==
    /\ apiPc[g] = ApiIdle
    /\ apiCalls < MaxApiCalls
    /\ apiCalls' = apiCalls + 1
    /\ apiPc' = [apiPc EXCEPT ![g] = [side |-> side, st |-> "lock"]]
    /\ UNCHANGED <<mu, addRt>>
    /\ UNCHANGED <<bundleVars, trackVars, fanVars, subVars, regVars, activeVars, baseVars>>

\* The Lock() or RLock() of the method returns.
ApiAcquire(g) ==
    /\ apiPc[g].st = "lock"
    /\ IF apiPc[g].side = "Lock" THEN Lock(ApiHolder(g)) ELSE RLock(ApiHolder(g))
    /\ apiPc' = [apiPc EXCEPT ![g].st = "body"]
    /\ UNCHANGED <<addRt, apiCalls>>
    /\ UNCHANGED <<bundleVars, trackVars, fanVars, subVars, regVars, activeVars, baseVars>>

\* The body of the method op and its deferred Unlock() or RUnlock(): the
\* append of OnTrackComplete (435); TotalTracks (662-675), isTrackActive
\* (684-729) and sendPLI (736-752) read the slots. Up to its body a call is told
\* from another only by the side of t.mu it takes.
ApiReturn(g, op) ==
    /\ apiPc[g].st = "body"
    /\ op \in (IF apiPc[g].side = "Lock" THEN LockOps ELSE RLockOps)
    /\ IF apiPc[g].side = "Lock" THEN Unlock(ApiHolder(g)) ELSE RUnlock(ApiHolder(g))
    /\ IF op = "OnTrackComplete"
       THEN /\ Len(onTrackCompleteCallbacks) < MaxCallbacks
            /\ onTrackCompleteCallbacks' = Append(onTrackCompleteCallbacks, 0)
       ELSE UNCHANGED onTrackCompleteCallbacks
    /\ apiPc' = [apiPc EXCEPT ![g] = ApiIdle]
    /\ UNCHANGED <<addRt, apiCalls>>
    /\ UNCHANGED <<clientCancelled, bundleCancelled, remoteTrackHigh, remoteTrackMid,
                   remoteTrackLow, rtQuality, rtDone, addPc, watcherPc, ctorWatcherPc,
                   completeFired, overlapped>>
    /\ UNCHANGED <<trackVars, fanVars, subVars, regVars, activeVars, baseVars>>

\* ---------------------------------------------------------- specification
BundleInit ==
    /\ clientCancelled = FALSE
    /\ bundleCancelled = FALSE
    /\ remoteTrackHigh = Nil
    /\ remoteTrackMid = Nil
    /\ remoteTrackLow = Nil
    /\ rtQuality = <<>>
    /\ rtDone = <<>>
    /\ addPc = [c \in Callers |-> "idle"]
    /\ watcherPc = <<>>
    /\ ctorWatcherPc = "none"
    /\ onTrackCompleteCallbacks = <<>>
    /\ completeFired = 0
    /\ overlapped = FALSE

TrackInit ==
    /\ trackCancelled = FALSE
    /\ trackRtDone = FALSE

FanInit ==
    /\ nRead = 0
    /\ fanPc = "idle"
    /\ fanIdx = 0
    /\ snapshot = 0
    /\ clientTracks = <<>>
    /\ onReadCallbacks = <<>>
    /\ trackMu = FALSE
    /\ outstanding = 0
    /\ pliSent = 0
    /\ handed = <<>>

\* A video track with a codec that is neither VP9 nor RED.
CodecInit ==
    /\ mimeType = "video/VP8"
    /\ codecKind = "video"
    /\ payloadType = 111

\* newSimulcastTrack up to line 385 and newTrack up to its return.
Init ==
    /\ BundleInit
    /\ TrackInit
    /\ FanInit
    /\ CodecInit
    /\ RegInit
    /\ ActiveInit
    /\ BaseInit
    /\ MuInit
    /\ srcKind = "track"
    /\ srcRID = ""

\* The bundle of one client.
Next ==
    \/ \E c \in Callers, rid \in RIDs : AddInstall(c, rid)
    \/ \E c \in Callers : AddCheckHigh(c)
    \/ \E c \in Callers : AddCheckMid(c)
    \/ \E c \in Callers : AddCheckLow(c)
    \/ \E c \in Callers : AddOnTrackComplete(c)
    \/ \E i \in 1..MaxAdds : WatcherClear(i)
    \/ \E i \in 1..MaxAdds : WatcherCancel(i)
    \/ \E i \in 1..MaxAdds : RemoteEOF(i)
    \/ CtorWatcher
    \/ OnTrackComplete
    \/ ClientCancel

Spec == Init /\ [][Next]_vars

\* The bundle and the Track of one client.
NextTree ==
    \/ Next
    \/ TrackRemoteEOF
    \/ TrackWatcher

SpecTree == Init /\ [][NextTree]_vars

\* The Track of one client, or one encoding of its bundle, with the read loop.
InitTrack ==
    /\ BundleInit
    /\ TrackInit
    /\ FanInit
    /\ RegInit
    /\ ActiveInit
    /\ BaseInit
    /\ MuInit
    /\ \/ /\ srcKind = "track"
          /\ srcRID = ""
          /\ mimeType \in MimeTypes
          /\ codecKind \in Kinds
          /\ payloadType \in PayloadTypes
       \/ /\ srcKind = "simulcast"
          /\ srcRID \in RIDs
          /\ CodecInit

NextTrack ==
    \/ ReadPacket
    \/ PushOne
    \/ PushPanic
    \/ CallbacksBegin
    \/ CallbackOne
    \/ CallbackPanic
    \/ CallbacksEnd
    \/ subscribe
    \/ OnRead
    \/ TrackRemoteEOF
    \/ TrackWatcher
    \/ ClientCancel

SpecTrack == InitTrack /\ [][NextTrack]_vars

\* newTrack's goroutine is a goroutine of its own: the scheduler runs it.
FairSpecTrack == SpecTrack /\ WF_vars(TrackWatcher)

\* The track registry of one client, used by two goroutines.
InitRegistry ==
    /\ BundleInit
    /\ TrackInit
    /\ FanInit
    /\ CodecInit
    /\ RegInit
    /\ ActiveInit
    /\ BaseInit
    /\ MuInit
    /\ srcKind = "track"
    /\ srcRID = ""

NextRegistry ==
    \/ \E g \in Goroutines, h \in Handles : RegCall(g, "Add", ID(h), {}, h)
    \/ \E g \in Goroutines, id \in IDs : RegCall(g, "Get", id, {}, Absent)
    \/ \E g \in Goroutines, ids \in SUBSET IDs : RegCall(g, "remove", "", ids, Absent)
    \/ \E g \in Goroutines, op \in {"Reset", "GetTracks", "Length"} :
           RegCall(g, op, "", {}, Absent)
    \/ \E g \in Goroutines : Add(g)
    \/ \E g \in Goroutines : Get(g)
    \/ \E g \in Goroutines : remove(g)
    \/ \E g \in Goroutines : Reset(g)
    \/ \E g \in Goroutines : GetTracks(g)
    \/ \E g \in Goroutines : Length(g)

SpecRegistry == InitRegistry /\ [][NextRegistry]_vars

\* A bundle whose encodings were added one call after the other, none of them
\* terminated yet, with its clock and its remote tracks' relay flags.
EncodingOrders ==
    {<<QualityHigh>>, <<QualityMid>>, <<QualityLow>>,
     <<QualityLow, QualityMid>>, <<QualityLow, QualityHigh>>,
     <<QualityMid, QualityHigh>>, <<QualityLow, QualityMid, QualityHigh>>}

Position(seq, q) ==
    IF \E i \in DOMAIN seq : seq[i] = q
    THEN CHOOSE i \in DOMAIN seq : seq[i] = q
    ELSE Nil

InitActive ==
    /\ clientCancelled = FALSE
    /\ bundleCancelled = FALSE
    /\ rtQuality \in EncodingOrders
    /\ remoteTrackHigh = Position(rtQuality, QualityHigh)
    /\ remoteTrackMid = Position(rtQuality, QualityMid)
    /\ remoteTrackLow = Position(rtQuality, QualityLow)
    /\ rtDone = [i \in DOMAIN rtQuality |-> FALSE]
    /\ addPc = [c \in Callers |-> "idle"]
    /\ watcherPc = [i \in DOMAIN rtQuality |-> "wait"]
    /\ ctorWatcherPc = "wait"
    /\ onTrackCompleteCallbacks = <<>>
    /\ completeFired = (IF Len(rtQuality) = 3 THEN 1 ELSE 0)
    /\ overlapped = FALSE
    /\ TrackInit
    /\ FanInit
    /\ CodecInit
    /\ RegInit
    /\ srcKind = "simulcast"
    /\ srcRID = ""
    /\ now = StartTime
    /\ lastReadTS = [q \in Qualities |-> 0]
    /\ BaseInit
    /\ MuInit
    /\ slotRelay \in [Qualities -> BOOLEAN]
    /\ \A q \in Qualities : Slot(q) = Nil => ~slotRelay[q]

NextActive ==
    \/ \E i \in 1..MaxAdds : StampRead(i)
    \/ Tick
    \/ \E i \in 1..MaxAdds : RemoteEOF(i)
    \/ \E i \in 1..MaxAdds : WatcherClear(i)
    \/ \E i \in 1..MaxAdds : WatcherCancel(i)

SpecActive == InitActive /\ [][NextActive]_vars

\* A bundle with one, two or three encodings added one call after the other
\* and none terminated yet: further adds, terminations, the watchers and the
\* cancellations.
InitCancel ==
    /\ InitActive
    /\ slotRelay = [q \in Qualities |-> FALSE]

NextCancel ==
    \/ \E c \in Callers, rid \in RIDs : AddInstall(c, rid)
    \/ \E c \in Callers : AddCheckHigh(c)
    \/ \E c \in Callers : AddCheckMid(c)
    \/ \E c \in Callers : AddCheckLow(c)
    \/ \E c \in Callers : AddOnTrackComplete(c)
    \/ \E i \in 1..MaxAdds : WatcherClear(i)
    \/ \E i \in 1..MaxAdds : WatcherCancel(i)
    \/ \E i \in 1..MaxAdds : RemoteEOF(i)
    \/ CtorWatcher
    \/ ClientCancel

SpecCancel == InitCancel /\ [][NextCancel]_vars

\* Each slot-clearing watcher is a goroutine of its own (551, 566, 581): once
\* its remote track's context is done the scheduler runs it.
FairSpecCancel == SpecCancel /\ \A i \in 1..MaxAdds : WF_vars(WatcherClear(i))

\* A complete bundle (low, mid and high added one call after the other) whose
\* three read loops deliver packets concurrently.
InitBase ==
    /\ InitActive
    /\ rtQuality = <<QualityLow, QualityMid, QualityHigh>>
    /\ slotRelay = [q \in Qualities |-> FALSE]

NextBase ==
    \/ \E q \in Qualities, ts \in Timestamps : ReadBaseTest(q, ts)
    \/ \E q \in Qualities : ReadBaseSet(q)
    \/ \E i \in 1..MaxAdds : RemoteEOF(i)

SpecBase == InitBase /\ [][NextBase]_vars

\* A bundle to which low and mid have been added, used by the goroutines that
\* add further encodings, by the watchers and by the goroutines that call its
\* methods, every acquisition and release of t.mu a step.
InitLock ==
    /\ InitActive
    /\ rtQuality = <<QualityLow, QualityMid>>
    /\ slotRelay = [q \in Qualities |-> FALSE]

AddSteps(c) ==
    \/ AddLockSlot(c)
    \/ AddWriteSlot(c)
    \/ AddTestHigh(c)
    \/ AddTestMid(c)
    \/ AddTestLow(c)
    \/ AddLockComplete(c)
    \/ AddRunComplete(c)
    \/ AddLockAdded(c)
    \/ AddRunAdded(c)

WatcherSteps(i) ==
    \/ WatcherLock(i)
    \/ WatcherWrite(i)
    \/ WatcherCancel(i)

ApiSteps(g) ==
    \/ ApiAcquire(g)
    \/ \E op \in LockOps \cup RLockOps : ApiReturn(g, op)

NextLock ==
    \/ \E c \in Callers, rid \in RIDs : AddBegin(c, rid)
    \/ \E c \in Callers : AddSteps(c)
    \/ \E i \in 1..MaxAdds : WatcherSteps(i)
    \/ \E i \in 1..MaxAdds : RemoteEOF(i)
    \/ \E g \in ApiGoroutines, side \in {"Lock", "RLock"} : ApiCall(g, side)
    \/ \E g \in ApiGoroutines : ApiSteps(g)

SpecLock == InitLock /\ [][NextLock]_vars

\* Every goroutine inside a call is scheduled: it takes its next step when
\* that step stays possible.
FairSpecLock ==
    /\ SpecLock
    /\ \A c \in Callers : WF_vars(AddSteps(c))
    /\ \A i \in 1..MaxAdds : WF_vars(WatcherSteps(i))
    /\ \A g \in ApiGoroutines : WF_vars(ApiSteps(g))

\* ------------------------------------------------------------------ claims
AllSlotsFilled ==
    remoteTrackHigh # Nil /\ remoteTrackMid # Nil /\ remoteTrackLow # Nil

\* C1: the completion callbacks of a bundle fire exactly once: onTrackComplete()
\* never runs a second time and no registered callback is invoked twice.
C1_FiresExactlyOnce ==
    /\ completeFired <= 1
    /\ \A f \in DOMAIN onTrackCompleteCallbacks : onTrackCompleteCallbacks[f] <= 1

\* C2: in every step in which the completion signal fires, all three quality
\* slots are non-empty.
C2_FiresOnlyWhenFull ==
    [][completeFired' # completeFired => AllSlotsFilled]_vars

\* The encodings were added in the order low, mid, high, one call after the
\* other, and no remote track has terminated.
LowMidHigh == <<QualityLow, QualityMid, QualityHigh>>

ScenarioLowMidHigh ==
    /\ Len(rtQuality) <= 3
    /\ rtQuality = SubSeq(LowMidHigh, 1, Len(rtQuality))
    /\ ~overlapped
    /\ \A i \in Created : ~rtDone[i]

\* C3: adding low, mid, high in this order, with no termination: total_tracks is
\* 1, 2, 3 after the respective adds, the completion signal has not fired
\* before the add of high reaches line 597, and it has fired exactly once when
\* the add of high has returned.
C3_LowMidHigh ==
    ScenarioLowMidHigh =>
        /\ TotalTracks = Len(rtQuality)
        /\ Len(rtQuality) < 3 => completeFired = 0
        /\ Len(rtQuality) = 3 /\ InFlight # {} => completeFired = 0
        /\ Len(rtQuality) = 3 /\ InFlight = {} =>
               /\ completeFired = 1
               /\ \A f \in DOMAIN onTrackCompleteCallbacks :
                      onTrackCompleteCallbacks[f] <= 1

C3_Witness ==
    /\ ScenarioLowMidHigh
    /\ Len(rtQuality) = 3
    /\ InFlight = {}
    /\ TotalTracks = 3
    /\ completeFired = 1
    /\ onTrackCompleteCallbacks = <<1>>

\* C4: the watcher of a terminated remote track clears the slot of that remote
\* track's quality and no other slot; when it does so on a complete bundle
\* (all three present, mid terminated), total_tracks is 2 and is_track_complete
\* is false afterwards; and a watcher that has finished has left the bundle's
\* context cancelled.
C4_PartialBundleDeath ==
    /\ [][\A i \in Created :
            (watcherPc[i] = "wait" /\ watcherPc'[i] # "wait") =>
                /\ rtDone[i]
                /\ Slot(rtQuality[i])' = Nil
                /\ \A q \in Qualities \ {rtQuality[i]} : Slot(q)' = Slot(q)
                /\ IsTrackComplete => TotalTracks' = 2 /\ ~IsTrackComplete']_vars
    /\ [](\A i \in Created : watcherPc[i] = "done" => bundleCancelled)

C4_Witness ==
    /\ Len(rtQuality) = 3
    /\ completeFired = 1
    /\ \E i \in Created : rtQuality[i] = QualityMid /\ watcherPc[i] = "done"
    /\ remoteTrackMid = Nil
    /\ TotalTracks = 2
    /\ ~IsTrackComplete
    /\ bundleCancelled
    /\ ~clientCancelled

\* C5 (as claimed): a step cancels the bundle's context only if it is the
\* client's cancellation or all the bundle's remote tracks have terminated
\* before it.
C5_CancelledOnlyWhenAllTerminated ==
    [][(bundleCancelled' /\ ~bundleCancelled) =>
           (clientCancelled' \/ \A i \in Created : rtDone[i])]_vars

\* C5 (amended): a step cancels the bundle's context only if it is the client's
\* cancellation or at least one of the bundle's remote tracks has terminated
\* before it; while no remote track has terminated and the client has not
\* cancelled, the bundle's context is not cancelled.
C5_CancelledOnlyAfterATermination ==
    /\ [][(bundleCancelled' /\ ~bundleCancelled) =>
              (clientCancelled' \/ \E i \in Created : rtDone[i])]_vars
    /\ []((~clientCancelled /\ \A i \in Created : ~rtDone[i]) => ~bundleCancelled)

C5_Witness ==
    /\ bundleCancelled
    /\ ~clientCancelled
    /\ Len(rtQuality) >= 2
    /\ \E i \in Created : watcherPc[i] = "wait"

\* C6: total_tracks() is the number of non-empty quality slots, lies between 0
\* and 3, and is_track_complete() holds exactly when all three are non-empty; a
\* bundle holding only the low encoding reports 1 and not complete.
C6_TotalTracksCountsSlots ==
    /\ TotalTracks = Cardinality({q \in Qualities : Slot(q) # Nil})
    /\ TotalTracks \in 0..3
    /\ IsTrackComplete <=> AllSlotsFilled
    /\ (remoteTrackLow # Nil /\ remoteTrackMid = Nil /\ remoteTrackHigh = Nil) =>
           (TotalTracks = 1 /\ ~IsTrackComplete)

C6_Witness ==
    /\ remoteTrackLow # Nil
    /\ remoteTrackMid = Nil
    /\ remoteTrackHigh = Nil
    /\ TotalTracks = 1
    /\ ~IsTrackComplete
    /\ InFlight = {}

\* C7: cancellation goes down the tree and never up: when the client's context
\* is done so are the bundle's and the Track's; when the bundle's (the Track's)
\* context is done so is the context of each of its remote tracks; and the only
\* step that changes the client's context is the client's own cancellation.
C7_CancellationGoesDown ==
    /\ [](clientCancelled => bundleCancelled /\ trackCancelled)
    /\ [](bundleCancelled => \A i \in Created : rtDone[i])
    /\ [](trackCancelled => trackRtDone)
    /\ [][clientCancelled' # clientCancelled => ClientCancel]_vars

C7_Witness ==
    /\ ~clientCancelled
    /\ bundleCancelled
    /\ trackCancelled
    /\ Len(rtQuality) >= 2
    /\ \A i \in Created : rtDone[i]

\* C8: once the context of a Track's remote track is done, the Track's context
\* is eventually done; and the Track's context is done only if its remote
\* track's is or the client's is.
C8_TrackFollowsRemoteTrack ==
    /\ trackRtDone ~> trackCancelled
    /\ [](trackCancelled => trackRtDone \/ clientCancelled)

C8_Witness ==
    /\ trackRtDone
    /\ trackCancelled
    /\ ~clientCancelled
    /\ nRead >= 1

\* The quality a packet of the encoding is expected to carry.
ExpectedQuality ==
    IF srcKind = "track" THEN QualityHigh
    ELSE IF srcRID = "high" THEN QualityHigh
    ELSE IF srcRID = "mid" THEN QualityMid
    ELSE QualityLow

\* How many of the source packets have been pushed to the k-th client-track.
Pushed(k) ==
    IF fanPc = "push" /\ k >= fanIdx THEN nRead - 1 ELSE nRead

\* C9: as long as no recipient has panicked, a client-track subscribed before
\* the first packet has received exactly the source packets whose push to it is
\* over, one push each, in source order, each tagged with the arrival quality
\* (QualityHigh for a Track); one subscribed later has received exactly those
\* that were read after it subscribed.
C9_OnePushPerPacketInOrder ==
    fanPc # "crashed" =>
        \A k \in DOMAIN clientTracks :
            LET ct == clientTracks[k]
                n == IF Pushed(k) > ct.joinedAt THEN Pushed(k) - ct.joinedAt ELSE 0
            IN  ct.recv = [j \in 1..n |-> <<ct.joinedAt + j, ExpectedQuality>>]

C9_Witness ==
    /\ srcKind = "simulcast"
    /\ srcRID = "mid"
    /\ fanPc = "idle"
    /\ nRead >= 2
    /\ Len(clientTracks) >= 2
    /\ \A k \in DOMAIN clientTracks :
           /\ clientTracks[k].joinedAt = 0
           /\ Len(clientTracks[k].recv) = nRead
           /\ clientTracks[k].recv[2] = <<2, QualityMid>>

\* C10: whenever the fan-out of a packet is over, finished or aborted by a
\* panic, no pool buffer it acquired is still outstanding.
C10_PoolBalanced ==
    fanPc \in {"idle", "crashed"} => outstanding = 0

\* The client-tracks that were in the list when the current packet was read
\* and have not been pushed that packet.
MissedClientTracks ==
    {k \in DOMAIN clientTracks :
        /\ clientTracks[k].joinedAt < nRead
        /\ \/ clientTracks[k].recv = <<>>
           \/ clientTracks[k].recv[Len(clientTracks[k].recv)][1] # nRead}

\* C11: a panic of one recipient during the fan-out of a packet is isolated:
\* when the fan-out has been aborted by a panic, at most one client-track of
\* the snapshot (the one whose push panicked) is left without the packet.
C11_PanicIsolated ==
    fanPc = "crashed" => Cardinality(MissedClientTracks) <= 1

\* C12: during the fan-out of one packet no buffer is handed to two
\* recipients, and the source packet itself is handed to none.
C12_OwnCopyPerRecipient ==
    /\ \A i, j \in DOMAIN handed : i # j => handed[i] # handed[j]
    /\ \A i \in DOMAIN handed : handed[i] # SourcePacket

\* The step in which goroutine g executes the body of the method it is in.
RegBody(g, op) == regPc[g].op = op /\ regPc'[g].op = "idle"

\* C13: an Add of a track whose id is already present returns ErrTrackExists
\* and leaves the registry as it was: the entry under that id, every other
\* entry and the length are unchanged.
C13_DuplicateAddRejected ==
    [][\A g \in Goroutines :
          (RegBody(g, "Add") /\ tracks[ID(regPc[g].h)] # Absent) =>
              /\ regRet'.val = ErrTrackExists
              /\ tracks' = tracks]_vars

C13_Witness ==
    /\ regRet.op = "Add"
    /\ regRet.h = "t2"
    /\ regRet.val = ErrTrackExists
    /\ tracks["abc"] = "t1"
    /\ tracks["def"] = "t3"

\* C14: right after a successful Add(t) the registry holds t under t's id, and
\* a Get of that id returns t; right after remove(ids) no id of the list is
\* present; a Get returns ErrTrackIsNotExists exactly when its id is not
\* present (never added, or removed since) and otherwise the handle stored; and
\* remove leaves every entry whose id is not in its list unchanged.
C14_RegistryRoundTrip ==
    /\ []((regRet.op = "Add" /\ regRet.val = "nil") =>
             tracks[ID(regRet.h)] = regRet.h)
    /\ [](regRet.op = "remove" => \A i \in regRet.ids : tracks[i] = Absent)
    /\ [](regRet.op = "Get" =>
             /\ regRet.val = ErrTrackIsNotExists <=> tracks[regRet.id] = Absent
             /\ regRet.val # ErrTrackIsNotExists => regRet.val = tracks[regRet.id])
    /\ [][\A g \in Goroutines :
             /\ (RegBody(g, "Get") /\ tracks[regPc[g].id] \in Handles) =>
                    regRet'.val = tracks[regPc[g].id]
             /\ RegBody(g, "remove") =>
                    \A i \in IDs \ regPc[g].ids : tracks'[i] = tracks[i]]_vars

C14_Witness ==
    /\ regRet.op = "Get"
    /\ regRet.id = "abc"
    /\ regRet.val = "t2"
    /\ tracks["abc"] = "t2"
    /\ tracks["def"] = Absent

\* C15: Reset has write-lock semantics: while a goroutine is inside Reset no
\* other goroutine is inside a method of the same registry.
C15_ResetExcludesReaders ==
    \A g \in Goroutines :
        regPc[g].op = "Reset" =>
            \A o \in Goroutines \ {g} : regPc[o].op = "idle"

\* The RIDs that are not one of the three simulcast RIDs.
UnknownRIDs == RIDs \ {"high", "mid", "low"}

\* C16: an AddRemoteTrack call with an unknown RID installs the remote track
\* in no quality slot and leaves total_tracks as it was.
C16_UnknownRIDRejected ==
    [][\A c \in Callers, rid \in UnknownRIDs :
          AddInstall(c, rid) =>
              /\ UNCHANGED <<remoteTrackHigh, remoteTrackMid, remoteTrackLow>>
              /\ TotalTracks' = TotalTracks]_vars

\* RIDs to evaluate RIDToQuality on.
RIDSamples == RIDs \cup {"HIGH", "Mid", "h", "medium", "q"}

\* C17: RIDToQuality maps "high" to QualityHigh, "mid" to QualityMid and every
\* other string to QualityLow, and an AddRemoteTrack call puts the new remote
\* track into the slot of that quality and touches no other slot.
C17_RIDDecidesSlot ==
    /\ [](/\ RIDToQuality("high") = QualityHigh
          /\ RIDToQuality("mid") = QualityMid
          /\ \A r \in RIDSamples \ {"high", "mid"} : RIDToQuality(r) = QualityLow)
    /\ [][\A c \in Callers, rid \in RIDs :
             AddInstall(c, rid) =>
                 LET new == Len(rtQuality) + 1
                 IN  /\ rid = "high" =>
                            /\ remoteTrackHigh' = new
                            /\ UNCHANGED <<remoteTrackMid, remoteTrackLow>>
                     /\ rid = "mid" =>
                            /\ remoteTrackMid' = new
                            /\ UNCHANGED <<remoteTrackHigh, remoteTrackLow>>
                     /\ rid \notin {"high", "mid"} =>
                            /\ remoteTrackLow' = new
                            /\ UNCHANGED <<remoteTrackHigh, remoteTrackMid>>]_vars

C17_Witness ==
    /\ rtQuality = <<QualityLow, QualityHigh, QualityMid>>
    /\ remoteTrackLow = 1
    /\ remoteTrackHigh = 2
    /\ remoteTrackMid = 3
    /\ InFlight = {}

\* C18: isTrackActive(q) holds exactly when slot q is non-empty, a packet has
\* been read on q, and the last one was read at most 500 ms ago; so it is
\* false for an empty slot, for a slot nothing was read on, and 600 ms or more
\* after the last packet.
C18_ActiveWithin500ms ==
    \A q \in Qualities :
        /\ isTrackActive(q) <=>
               /\ Slot(q) # Nil
               /\ lastReadTS[q] # 0
               /\ now <= lastReadTS[q] + 5
        /\ Slot(q) = Nil => ~isTrackActive(q)
        /\ lastReadTS[q] = 0 => ~isTrackActive(q)
        /\ now >= lastReadTS[q] + 6 => ~isTrackActive(q)

C18_Witness ==
    /\ remoteTrackHigh # Nil
    /\ remoteTrackLow # Nil
    /\ lastReadTS[QualityHigh] = StartTime
    /\ now = lastReadTS[QualityHigh] + 6
    /\ ~isTrackActive(QualityHigh)
    /\ now = lastReadTS[QualityLow] + 5
    /\ isTrackActive(QualityLow)

\* C19: IsRelay() holds exactly when some non-empty slot holds a remote track
\* that is a relay.
C19_RelayIfAnySlotRelay ==
    IsRelay <=> \E q \in Qualities : Slot(q) # Nil /\ slotRelay[q]

\* C20: every client-track of a Track is scalable when the codec is VP9,
\* otherwise RED when the kind is audio and the payload type 63, otherwise
\* plain; subscribe has sent one PLI per call when the kind is video and none
\* otherwise; and when no fan-out is running a client-track has received every
\* packet read since it subscribed.
C20_SubscribeByCodec ==
    srcKind = "track" =>
        /\ \A k \in DOMAIN clientTracks :
               /\ mimeType = "video/VP9" => clientTracks[k].kind = "scaleable"
               /\ (mimeType # "video/VP9" /\ codecKind = "audio" /\ payloadType = 63)
                      => clientTracks[k].kind = "red"
               /\ (mimeType # "video/VP9" /\ ~(codecKind = "audio" /\ payloadType = 63))
                      => clientTracks[k].kind = "plain"
               /\ fanPc = "idle" =>
                      Len(clientTracks[k].recv) = nRead - clientTracks[k].joinedAt
        /\ codecKind = "video" => pliSent = Len(clientTracks)
        /\ codecKind # "video" => pliSent = 0

C20_Witness ==
    /\ srcKind = "track"
    /\ mimeType = "audio/opus"
    /\ codecKind = "audio"
    /\ payloadType = 63
    /\ Len(clientTracks) = 2
    /\ clientTracks[1].kind = "red"
    /\ clientTracks[2].joinedAt = 1
    /\ nRead = 2
    /\ fanPc = "idle"
    /\ Len(clientTracks[2].recv) = 1
    /\ pliSent = 0

\* C22: appending a callback to a callback list and iterating that list to
\* invoke the callbacks exclude each other: no OnRead appends to onReadCallbacks
\* while the fan-out of a packet ranges over it.
C22_AppendExcludesIteration ==
    [][Len(onReadCallbacks') > Len(onReadCallbacks) => fanPc # "callbacks"]_vars

\* C24: a watcher clears a quality slot only if the slot still holds the remote
\* track the watcher was spawned for; a slot that holds a newer remote track is
\* left as it is when the older remote track terminates.
C24_WatcherClearsOwnTrackOnly ==
    [][\A i \in Created :
          (watcherPc[i] = "wait" /\ watcherPc'[i] # "wait"
              /\ Slot(rtQuality[i]) # i) =>
                  Slot(rtQuality[i])' = Slot(rtQuality[i])]_vars

\* C23: for each quality q the per-quality base timestamp equals the RTP
\* timestamp of the first packet read on q, whatever that timestamp is (0
\* included), once onRead is past line 493 for that packet, and no later packet
\* on q changes it.
C23_QualityBaseIsFirstTimestamp ==
    \A q \in Qualities :
        (firstTS[q] # <<>> /\ readPc[q].pc = "idle") =>
            remoteTrackBaseTS[q] = firstTS[q][1]

\* C26: with the read loops of the encodings running concurrently, the
\* bundle-wide baseTS, once it holds the timestamp of a packet, is not
\* overwritten by any later packet of any encoding.
C26_BaseSetOnce ==
    [][baseTS # ZeroTS => baseTS' = baseTS]_vars

\* C25: once the bundle's context is cancelled, the context of every remote
\* track of the bundle is done and every quality slot is eventually cleared:
\* total_tracks() eventually is 0, and from 0 it changes only in a step that
\* adds a new remote track.
C25_ClearedAfterCancel ==
    /\ [](bundleCancelled => \A i \in Created : rtDone[i])
    /\ bundleCancelled ~> (TotalTracks = 0)
    /\ [][(bundleCancelled /\ TotalTracks = 0 /\ TotalTracks' # 0) =>
              Len(rtQuality') > Len(rtQuality)]_vars

C25_Witness ==
    /\ bundleCancelled
    /\ ~clientCancelled
    /\ Len(rtQuality) = 3
    /\ \E i \in Created : watcherPc[i] = "done"
    /\ TotalTracks = 0
    /\ \A i \in Created : watcherPc[i] \in {"done", "cancel"}

\* C27: no interleaving of AddRemoteTrack, the watchers and the calls of
\* OnTrackComplete, TotalTracks, isTrackActive and sendPLI on one bundle
\* deadlocks: t.mu is never held for writing and for reading at once and is
\* held only by a goroutine inside a call; every AddRemoteTrack call and every
\* method call returns (its goroutine is outside a call again and again);
\* and every watcher whose remote track has terminated finishes.
C27_NoDeadlock ==
    /\ [](mu.writer # NoOne => mu.readers = {})
    /\ [](\A c \in Callers : mu.writer = AddHolder(c) => addPc[c] # "idle")
    /\ [](\A g \in ApiGoroutines :
             (mu.writer = ApiHolder(g) \/ ApiHolder(g) \in mu.readers) =>
                 apiPc[g].st = "body")
    /\ \A c \in Callers : []<>(addPc[c] = "idle")
    /\ \A g \in ApiGoroutines : []<>(apiPc[g] = ApiIdle)
    /\ \A i \in 1..MaxAdds :
           []<>((i \in Created /\ rtDone[i]) => watcherPc[i] = "done")

\* A watcher holds t.mu while an AddRemoteTrack call waits for it in
\* onTrackComplete and a method call waits for it too; the completion
\* callbacks have not run yet.
C27_Witness ==
    /\ \E i \in Created : mu.writer = WatcherHolder(i)
    /\ \E c \in Callers : addPc[c] = "lockComplete"
    /\ \E g \in ApiGoroutines : apiPc[g].st = "lock"
    /\ completeFired = 0

\* The slot the test at line 596 reads in the next step of caller c.
TestedSlot(c) ==
    CASE addPc[c] = "checkHigh" -> QualityHigh
      [] addPc[c] = "checkMid" -> QualityMid
      [] addPc[c] = "checkLow" -> QualityLow

\* The slots some goroutine holds t.mu to write: a watcher past its Lock()
\* (555), an AddRemoteTrack call past its own (547).
SlotsBeingWritten ==
    {rtQuality[i] : i \in {j \in Created : watcherPc[j] = "locked"}}
        \cup {rtQuality[addRt[c]] : c \in {d \in Callers : addPc[d] = "slot"}}

\* C21: every read and every write of the three slot pointers is made while
\* holding t.mu, so that no slot pointer is read while a watcher or an add
\* holds t.mu to write it: a step of AddRemoteTrack that reads a slot pointer
\* for the test at line 596 is taken only while no other goroutine holds t.mu
\* to write that slot.
C21_NoSlotReadDuringWrite ==
    [][\A c \in Callers :
          (addPc[c] \in {"checkHigh", "checkMid", "checkLow"} /\ addPc'[c] # addPc[c])
              => TestedSlot(c) \notin SlotsBeingWritten]_vars

====
